---- MODULE Spec2Model ----
(***************************************************************************)
(* micro-micro: the dispatch of a request's tasks to the shared work queue *)
(* and the batch resolver (RequestTaskBatchResolver) that assembles the    *)
(* queue's completed / failed / removed events into one batch result,      *)
(* bounded by a timeout.                                                   *)
(*                                                                         *)
(* One Node.js server process is modelled: callbacks run to completion, so *)
(* every action below is one callback (a request handler up to its await,  *)
(* the delivery of one queue event to all listeners of the shared          *)
(* QueueEvents emitter, the batch timeout timer, the 0 ms cleanup timer).  *)
(*                                                                         *)
(* SpecWorker models the worker process: the @Service decorators that run  *)
(* when the service modules load, the instantiation of the services, and   *)
(* TaskService.do on a task.                                               *)
(*                                                                         *)
(* SpecValidator models the server's validation of a request's data        *)
(* against the requirements of the requested services, and the building of *)
(* the tasks that follows it.                                              *)
(***************************************************************************)
EXTENDS Naturals, Sequences, FiniteSets, TLC

\* ---------------------------------------------------------------- bounds
MaxEvents == 2
MaxClock == 2

\* the request slots: two requests, so two resolvers on the one shared event stream
Requests == {1, 2}

\* ---------------------------------------------------------------- constants of the program
TaskResultStatuses == {"done", "fail", "reject"}

LIFECYCLE_EVENTS == [TIMEOUT |-> "timeout", DONE |-> "done"]

\* the value JavaScript yields for a property that is not there
Undefined == "undefined"

VARIABLES
  clock,       \* the clock reading (new Date().toISOString()) of the latest request
  phase,       \* per request: "idle" (not yet received), "constructed" (resolver built,
               \* results() not called yet) or "awaiting" (handler at its await)
  resolver,    \* per request: the private state of its RequestTaskBatchResolver
  listeners,   \* the shared QueueEvents emitter: per event type, the listeners in registration order
  queue,       \* the jobs added to the work queue
  evCount,     \* number of queue events emitted so far
  submitted,   \* history: per request, for each task queued, whether its resolver listened then
  lastEvent,   \* history: the type and job id of the queue event the latest step emitted, if any
  AvailableServices,   \* worker: the service classes services/index.ts exports, in import order
  AvailableServiceNames,  \* the names array services/index.ts exports beside the classes
  metadata,            \* worker: the reflect-metadata stored on the decorators' target
  registeredServices,  \* worker: the registeredServices array of taskServices
  serviceInstances,    \* worker: the service directory of worker.ts, name -> class of the instance
  instantiated,        \* worker: the classes instantiated so far
  doCall,              \* worker: the latest TaskService.do call and how its promise ended
  active,              \* worker: the jobs taken from the queue and not yet finished, each
                       \* with its processJob call: suspended at its await, or settled
  validation           \* server: the latest validation of a request's data and what followed

serverVars == <<clock, phase, resolver, listeners, queue, evCount, submitted, lastEvent>>

workerVars ==
  <<AvailableServices, AvailableServiceNames, metadata, registeredServices, serviceInstances,
    instantiated, doCall, active>>

vars == <<serverVars, workerVars, validation>>

\* ---------------------------------------------------------------- helpers
\* obj[field] of a JavaScript object: undefined when the property is absent
Field(obj, field) == IF field \in DOMAIN obj THEN obj[field] ELSE Undefined

\* hashHex: a sha256 digest; distinct inputs give distinct digests
HashHex(string) == <<"sha256", string>>

\* ---------------------------------------------------------------- the resolver
Unresolved == [kind |-> "unresolved"]

TaskBatchResult(services) == [kind |-> "result", services |-> services]

TimeoutError ==
  [kind |-> "error", code |-> 504,
   message |-> "One or more services timed out while processing the request."]

\* the state of a request slot before its resolver is constructed
NoResolver ==
  [batch |-> [requestId |-> <<>>, tasks |-> <<>>],
   timeout |-> "unset",
   lifecycle |-> {},
   tasksLeft |-> 0,
   genFinished |-> FALSE,
   jobResults |-> <<>>,
   promise |-> Unresolved,
   closeTimers |-> 0,
   resolveCalls |-> 0,
   cleanups |-> 0]

\* clearTimeout: cancels a timer that has not fired yet
ClearTimeout(t) == IF t = "armed" THEN "cleared" ELSE t

TaskIds(batch) == {batch.tasks[i].id : i \in DOMAIN batch.tasks}

\* #ownsTask as its first version had it for every event: the completed case alone,
\* which a failed or removed event (no return value to compare) always passes
OwnsTaskUnfiltered(batch, eventData) ==
  IF eventData.event = "completed"
  THEN batch.requestId = eventData.returnvalue.requestId
  ELSE TRUE

\* #ownsTask: completed events are matched on the requestId of their return value,
\* failed and removed events on the job id
OwnsTask(batch, eventData) ==
  CASE eventData.event = "completed" ->
         batch.requestId = eventData.returnvalue.requestId
    [] eventData.event = "failed" ->
         \E i \in DOMAIN batch.tasks : batch.tasks[i].id = eventData.jobId
    [] eventData.event = "removed" ->
         \E i \in DOMAIN batch.tasks : batch.tasks[i].id = eventData.jobId

\* #mapResultsToServiceNames: batch.tasks.forEach over the tasks in order, each writing
\* results.services[serviceName]; destructuring the result of a task that has none throws
RECURSIVE MapResultsFold(_, _, _)
MapResultsFold(tasks, jobResults, services) ==
  IF tasks = <<>> THEN [threw |-> FALSE, services |-> services]
  ELSE LET task == Head(tasks)
       IN IF task.id \notin DOMAIN jobResults
          THEN [threw |-> TRUE, services |-> services]
          ELSE LET rawData == jobResults[task.id]
                   entry == [id |-> task.id,
                             status |-> Field(rawData, "status"),
                             result |-> Field(rawData, "resultData")]
               IN MapResultsFold(Tail(tasks), jobResults,
                                 (task.serviceName :> entry) @@ services)

MapResultsToServiceNames(batch, jobResults) ==
  MapResultsFold(batch.tasks, jobResults, <<>>)

\* one next() on the #pendingTaskCountDown generator; value is {} for undefined
PendingTaskCountDownNext(tasksLeft, finished) ==
  IF finished \/ tasksLeft = 0
  THEN [value |-> {}, done |-> TRUE, tasksLeft |-> tasksLeft, finished |-> TRUE]
  ELSE IF tasksLeft - 1 = 0
       THEN [value |-> {0}, done |-> TRUE, tasksLeft |-> 0, finished |-> TRUE]
       ELSE [value |-> {tasksLeft - 1}, done |-> FALSE,
             tasksLeft |-> tasksLeft - 1, finished |-> FALSE]

\* a resolve that settles again on every call
ResolveOverwrites(rs, value) ==
  [rs EXCEPT !.promise = value, !.resolveCalls = @ + 1]

\* the resolve function of the promise results() returns: only the first call settles it
Resolve(rs, value) ==
  [rs EXCEPT !.promise = IF @.kind = "unresolved" THEN value ELSE @,
             !.resolveCalls = @ + 1]

\* #close: schedules the cleanup with setTimeout(..., 0)
Close(rs) == [rs EXCEPT !.closeTimers = @ + 1]

\* the once-listener results() registers for the lifecycle 'done' event
LifecycleDone(rs) ==
  LET s1 == [rs EXCEPT !.lifecycle = @ \ {LIFECYCLE_EVENTS.DONE},
                       !.timeout = ClearTimeout(@)]
      mapped == MapResultsToServiceNames(rs.batch, rs.jobResults)
  IN IF mapped.threw
     THEN [state |-> s1, threw |-> TRUE]
     ELSE [state |-> Close(Resolve(s1, TaskBatchResult(mapped.services))),
           threw |-> FALSE]

\* a timeout listener that surfaces the outcomes collected so far
LifecycleTimeoutPartial(rs) ==
  LET s1 == [rs EXCEPT !.lifecycle = @ \ {LIFECYCLE_EVENTS.TIMEOUT}]
  IN [state |-> Close(Resolve(s1, [kind |-> "error", code |-> 504,
                                   services |-> rs.jobResults])),
      threw |-> FALSE]

\* the once-listener results() registers for the lifecycle 'timeout' event
LifecycleTimeout(rs) ==
  LET s1 == [rs EXCEPT !.lifecycle = @ \ {LIFECYCLE_EVENTS.TIMEOUT}]
  IN [state |-> Close(Resolve(s1, TimeoutError)), threw |-> FALSE]

\* #lifecycle.emit(event): runs the listener registered for it, if any
LifecycleEmit(rs, event) ==
  IF event \notin rs.lifecycle THEN [state |-> rs, threw |-> FALSE]
  ELSE IF event = LIFECYCLE_EVENTS.DONE THEN LifecycleDone(rs)
  ELSE LifecycleTimeout(rs)

\* #decrementPendingTasks
DecrementPendingTasks(rs) ==
  LET tasksLeft == PendingTaskCountDownNext(rs.tasksLeft, rs.genFinished)
      s1 == [rs EXCEPT !.tasksLeft = tasksLeft.tasksLeft,
                       !.genFinished = tasksLeft.finished]
  IN IF tasksLeft.value = {0} \/ tasksLeft.done
     THEN LifecycleEmit(s1, LIFECYCLE_EVENTS.DONE)
     ELSE [state |-> s1, threw |-> FALSE]

\* this.#jobResults[id] = value
StoreResult(rs, id, value) ==
  [rs EXCEPT !.jobResults = (id :> value) @@ @]

\* #eventListenerCompleted
EventListenerCompleted(rs, eventData) ==
  IF ~OwnsTask(rs.batch, eventData) THEN [state |-> rs, threw |-> FALSE]
  ELSE DecrementPendingTasks(
         StoreResult(rs, eventData.returnvalue.id, eventData.returnvalue))

\* #eventListenerFailed
EventListenerFailed(rs, eventData) ==
  IF ~OwnsTask(rs.batch, eventData) THEN [state |-> rs, threw |-> FALSE]
  ELSE DecrementPendingTasks(
         StoreResult(rs, eventData.jobId,
                     [id |-> eventData.jobId,
                      requestId |-> rs.batch.requestId,
                      resultData |-> [issues |-> <<eventData.failedReason>>],
                      status |-> "fail"]))

\* a removed listener without the check for a result recorded earlier
EventListenerRemovedUnguarded(rs, eventData) ==
  IF ~OwnsTask(rs.batch, eventData) THEN [state |-> rs, threw |-> FALSE]
  ELSE DecrementPendingTasks(
         StoreResult(rs, eventData.jobId,
                     [id |-> eventData.jobId,
                      requestId |-> rs.batch.requestId,
                      resultData |->
                        [issues |-> <<"Job removed from queue before processing for unknown reason">>]]))

\* #eventListenerRemoved: the stored result has no status property
EventListenerRemoved(rs, eventData) ==
  IF ~OwnsTask(rs.batch, eventData) THEN [state |-> rs, threw |-> FALSE]
  ELSE IF eventData.jobId \in DOMAIN rs.jobResults THEN [state |-> rs, threw |-> FALSE]
  ELSE DecrementPendingTasks(
         StoreResult(rs, eventData.jobId,
                     [id |-> eventData.jobId,
                      requestId |-> rs.batch.requestId,
                      resultData |->
                        [issues |-> <<"Job removed from queue before processing for unknown reason">>]]))

Listener(r, fn) == [r |-> r, fn |-> fn]

RunListener(rs, fn, eventData) ==
  CASE fn = "eventListenerCompleted" -> EventListenerCompleted(rs, eventData)
    [] fn = "eventListenerFailed" -> EventListenerFailed(rs, eventData)
    [] fn = "eventListenerRemoved" -> EventListenerRemoved(rs, eventData)

\* EventEmitter.emit on the shared QueueEvents: the listeners run synchronously in
\* registration order; an exception thrown by a listener leaves emit, so the
\* listeners registered after it do not see the event
RECURSIVE EmitToListeners(_, _, _)
EmitToListeners(rsAll, ls, eventData) ==
  IF ls = <<>> THEN rsAll
  ELSE LET l == Head(ls)
           out == RunListener(rsAll[l.r], l.fn, eventData)
           next == [rsAll EXCEPT ![l.r] = out.state]
       IN IF out.threw THEN next ELSE EmitToListeners(next, Tail(ls), eventData)

\* a removal that drops every listener of the event type
RemoveAllListeners(ls, l) == <<>>

\* EventEmitter.removeListener: removes the most recently added instance, if any
RemoveListener(ls, l) ==
  IF \A i \in DOMAIN ls : ls[i] # l THEN ls
  ELSE LET k == CHOOSE i \in DOMAIN ls :
                  ls[i] = l /\ \A j \in DOMAIN ls : j > i => ls[j] # l
       IN SubSeq(ls, 1, k - 1) \o SubSeq(ls, k + 1, Len(ls))

\* ---------------------------------------------------------------- the request handler
\* the synchronous part of the handler works on the process state
\* ps = [resolver, listeners, queue, submitted]

\* new RequestTaskBatchResolver(batch, timeout): arms the timeout, builds the countdown
\* from batch.tasks.length and subscribes the three listeners
NewResolver(ps, r, batch) ==
  [ps EXCEPT
     !.resolver[r] = [NoResolver EXCEPT !.batch = batch,
                                        !.timeout = "armed",
                                        !.tasksLeft = Len(batch.tasks)],
     !.listeners = [completed |-> Append(@.completed, Listener(r, "eventListenerCompleted")),
                    failed |-> Append(@.failed, Listener(r, "eventListenerFailed")),
                    removed |-> Append(@.removed, Listener(r, "eventListenerRemoved"))]]

\* whether request r's resolver is subscribed to all three event types
Subscribed(ls, r) ==
  /\ \E i \in DOMAIN ls.completed : ls.completed[i] = Listener(r, "eventListenerCompleted")
  /\ \E i \in DOMAIN ls.failed : ls.failed[i] = Listener(r, "eventListenerFailed")
  /\ \E i \in DOMAIN ls.removed : ls.removed[i] = Listener(r, "eventListenerRemoved")

\* #queueTask: workQueue.add(id, task, {jobId: id}); the queue keeps one job per job id
QueueTask(ps, r, task) ==
  [ps EXCEPT
     !.queue = IF \E job \in @ : job.id = task.id THEN @ ELSE @ \cup {task},
     !.submitted[r] = Append(@, [id |-> task.id,
                                 subscribed |-> Subscribed(ps.listeners, r),
                                 armed |-> ps.resolver[r].timeout = "armed"])]

\* #queueTaskBatch
RECURSIVE QueueTaskBatch(_, _, _)
QueueTaskBatch(ps, r, tasks) ==
  IF tasks = <<>> THEN ps
  ELSE QueueTaskBatch(QueueTask(ps, r, Head(tasks)), r, Tail(tasks))

\* resolver.results(): registers the two once-listeners on the lifecycle emitter
Results(ps, r) ==
  [ps EXCEPT !.resolver[r].lifecycle =
               @ \cup {LIFECYCLE_EVENTS.DONE, LIFECYCLE_EVENTS.TIMEOUT}]

\* #waitForTasks queuing the batch before it constructs the resolver
WaitForTasksQueueFirst(ps, r, tasks, requestId) ==
  Results(NewResolver(QueueTaskBatch(ps, r, tasks),
                      r, [requestId |-> requestId, tasks |-> tasks]),
          r)

\* #waitForTasks up to its await
WaitForTasks(ps, r, tasks, requestId) ==
  Results(QueueTaskBatch(NewResolver(ps, r, [requestId |-> requestId, tasks |-> tasks]),
                         r, tasks),
          r)

\* variant: the task id is the digest of the request id alone, without the index
TasksToQueueWithoutIndex(requestId, serviceTasks) ==
  [i \in DOMAIN serviceTasks |->
     [id |-> HashHex(<<requestId>>),
      requestId |-> requestId,
      serviceName |-> serviceTasks[i]]]

\* doTasks: the request id is the digest of the clock reading, a task id the digest of
\* the request id followed by the task's index
TasksToQueue(requestId, serviceTasks) ==
  [i \in DOMAIN serviceTasks |->
     [id |-> HashHex(<<requestId, i - 1>>),
      requestId |-> requestId,
      serviceName |-> serviceTasks[i]]]

\* ---------------------------------------------------------------- the worker: services
\* a JavaScript value of a task's data: its typeof and the value
Str(s) == <<"string", s>>

Num(n) == <<"number", n>>

UndefinedValue == <<"undefined">>

TypeOf(v) == v[1]

\* ToBoolean of a data value: undefined, false, the empty string and 0 are falsy
Truthy(v) == v # UndefinedValue /\ v # <<"boolean", FALSE>> /\ v # Str("") /\ v # Num(0)

\* data[key]
DataField(data, key) == IF key \in DOMAIN data THEN data[key] ELSE UndefinedValue

\* the configuration each service class passes to @Service
ServiceConfig(class) ==
  CASE class = "IPValidationService" ->
         [name |-> "ip-validation",
          description |-> "Determine whether a string is a valid IPv4 address",
          returnType |-> "function",
          requiredData |-> [ip |-> "string"]]
    [] class = "JobWorkerMock" ->
         [name |-> "mock-worker",
          description |-> "Mock job queue worker results",
          returnType |-> "function",
          requiredData |-> [mockResult |-> "string"]]
    [] class = "RDAPService" ->
         [name |-> "rdap",
          description |-> "Lookup RDAP information for a domain or IP address",
          returnType |-> "function",
          requiredData |-> [oneOf |-> <<[ip |-> "string", domain |-> "string"]>>]]
    [] class = "IPNumberService" ->
         \* no service of the repository requires a field in a shape another service
         \* does not: a service requiring ip as a number stands for such a registration
         [name |-> "ip-number",
          description |-> "A service that requires the ip as a number",
          returnType |-> "function",
          requiredData |-> [ip |-> "number"]]
    [] class = "WhoisService" ->
         \* rdap is the only service of the repository with a oneOf requirement: a
         \* second service declaring the same oneOf stands for such a registration
         [name |-> "whois",
          description |-> "A second service that requires either ip or domain",
          returnType |-> "function",
          requiredData |-> [oneOf |-> <<[ip |-> "string", domain |-> "string"]>>]]

\* the versions of the AvailableServices array of services/index.ts
AvailableServicesVersions ==
  {<<"IPValidationService">>, <<"IPValidationService", "JobWorkerMock">>}

\* the AvailableServiceNames array each version of services/index.ts exports with it
AvailableServiceNamesVersion(classes) ==
  IF classes = <<"IPValidationService">> THEN <<"ip-validation">>
  ELSE <<"ip-validation", "mock-worker">>

\* new TaskResult(id, requestId, status, result)
TaskResult(id, requestId, status, result) ==
  [id |-> id, requestId |-> requestId, status |-> status, resultData |-> result]

\* the @Service decorator applied to a class: the four defineMetadata calls store on
\* target.constructor, which for every class is the one Function object, so each
\* decorator overwrites what the one before stored
Service(md, registered, class) ==
  LET config == ServiceConfig(class)
  IN [metadata |-> [name |-> config.name,
                    description |-> config.description,
                    returnType |-> config.returnType,
                    requiredData |-> config.requiredData],
      registeredServices |->
        Append(registered, [name |-> config.name,
                            description |-> config.description,
                            requiredData |-> config.requiredData])]

\* getMetadataName: getMetadata('name', TaskService.constructor), the same Function object
GetMetadataName(md) == Field(md, "name")

\* getMetadataRequiredData; an empty schema stands for undefined
GetMetadataRequiredData(md) == IF "requiredData" \in DOMAIN md THEN md.requiredData ELSE <<>>

\* validateInstanceMetadata: TRUE when the constructor does not throw
ValidateInstanceMetadata(md) ==
  \A key \in {"name", "description", "returnType", "requiredData"} : key \in DOMAIN md

\* getTaskServiceMetadata(target).name
GetTaskServiceMetadataName(md) == Field(md, "name")

\* for (const key in requiredData): one issue for each key whose data value is falsy
RECURSIVE RequiredDataIssues(_, _, _, _)
RequiredDataIssues(keys, requiredData, data, thisService) ==
  IF keys = {} THEN <<>>
  ELSE LET key == CHOOSE k \in keys : TRUE
       IN (IF ~Truthy(DataField(data, key))
           THEN <<<<"Task missing data required by service", key, thisService>>>>
           ELSE <<>>)
          \o RequiredDataIssues(keys \ {key}, requiredData, data, thisService)

\* !id for a task's id or requestId: undefined and the empty string are falsy, a digest
\* is not (the lengths are compared first: a digest is a pair, not a string)
NoId(id) == Len(id) = 0 \/ (Len(id) = Len(Undefined) /\ id = Undefined)

\* validateTask: the list of issues, empty when the task is valid
ValidateTask(md, task) ==
  LET thisService == GetMetadataName(md)
      requiredData == GetMetadataRequiredData(md)
  IN (IF NoId(task.id) THEN <<<<"Task missing id">>>> ELSE <<>>)
     \o (IF NoId(task.requestId) THEN <<<<"Task missing requestId">>>> ELSE <<>>)
     \o (IF task.serviceName # thisService
         THEN <<<<"Task addressed to service sent to incorrect service",
                  task.serviceName, thisService>>>>
         ELSE <<>>)
     \o RequiredDataIssues(DOMAIN requiredData, requiredData, task.data, thisService)

\* validateIP: the IPv4 pattern, on the strings the tasks carry
ValidateIP(ip) == ip \in {"1.2.3.4"}

\* IPValidationService.processTask: ip.match throws for an ip that is not a string, with
\* one message when the ip is absent and another when it is a value without match; the
\* TaskResult is built with three arguments, (id, 'done', {data: {valid}}), so 'done'
\* lands in requestId and the data object in status (written here as its JSON text)
ProcessTaskIPValidation(task) ==
  LET ip == DataField(task.data, "ip")
  IN IF ip = UndefinedValue
     THEN [kind |-> "threw",
           error |-> <<"TypeError", "Cannot read properties of undefined (reading 'match')">>]
     ELSE IF TypeOf(ip) # "string"
     THEN [kind |-> "threw", error |-> <<"TypeError", "ip.match is not a function">>]
     ELSE [kind |-> "resolved",
           value |-> TaskResult(task.id, "done",
                                IF ValidateIP(ip[2]) THEN "{data:{valid:true}}"
                                                     ELSE "{data:{valid:false}}",
                                <<>>)]

\* JobWorkerMock.processTask
ProcessTaskMock(task) ==
  LET mockResult == DataField(task.data, "mockResult")
      isValid == \E status \in TaskResultStatuses : mockResult = Str(status)
      returnData == IF isValid THEN [data |-> [mockResult |-> mockResult]]
                    ELSE [error |-> <<"Passed invalid mockResult", mockResult>>]
  IN IF mockResult = Str("fail")
     THEN [kind |-> "threw", error |-> <<"Error", "mock-worker failing as directed">>]
     ELSE [kind |-> "resolved",
           value |-> TaskResult(task.id, task.requestId,
                                IF isValid THEN mockResult[2] ELSE "reject",
                                returnData)]

\* this.processTask(task) of an instance of the class
ProcessTask(class, task) ==
  CASE class = "IPValidationService" -> ProcessTaskIPValidation(task)
    [] class = "JobWorkerMock" -> ProcessTaskMock(task)

Pending == [kind |-> "pending"]

\* TaskService.do: the executor resolves with a reject result when validation fails and,
\* whether it did or not, goes on to call processTask; a throw inside the executor
\* rejects the promise unless it is settled already, a result arriving through then()
\* resolves it unless it is settled already, and a rejection of the promise processTask
\* returned is handled by nobody
Do(md, class, task) ==
  LET taskValidation == ValidateTask(md, task)
      validated ==
        IF taskValidation # <<>>
        THEN [kind |-> "resolved",
              value |-> TaskResult(task.id, task.requestId, "reject",
                                   [issues |-> taskValidation])]
        ELSE Pending
      processed == ProcessTask(class, task)
      promise ==
        IF validated.kind # "pending" THEN validated
        ELSE CASE processed.kind = "threw" -> [kind |-> "rejected", value |-> processed.error]
               [] processed.kind = "resolved" -> [kind |-> "resolved", value |-> processed.value]
               [] processed.kind = "rejected" -> Pending
  IN [class |-> class, task |-> task,
      taskValidation |-> taskValidation,
      processTaskCalled |-> TRUE,
      processed |-> processed.kind,
      promise |-> promise]

\* TaskService.do at the moment it returns to its caller: the executor has run, so a
\* task that failed validation has its promise resolved with the reject result and a
\* processTask that threw has rejected it; the result of a processTask that returned a
\* promise reaches resolve only in the then-callback, a later microtask, and until then
\* the promise of a valid task is pending
DoAtReturn(md, class, task) ==
  LET call == Do(md, class, task)
  IN IF call.taskValidation = <<>> /\ call.processed = "resolved"
     THEN [call EXCEPT !.promise = Pending]
     ELSE call

\* no call of do yet
NoCall ==
  [class |-> "none", task |-> <<>>, taskValidation |-> <<>>,
   processTaskCalled |-> FALSE, processed |-> "none", promise |-> Pending]

\* the worker process before any module has loaded
WorkerStart ==
  /\ metadata = <<>>
  /\ registeredServices = <<>>
  /\ serviceInstances = <<>>
  /\ instantiated = <<>>
  /\ doCall = NoCall
  /\ active = {}

\* ---------------------------------------------------------------- the request data validator
\* new RouteHandlerResponse(code, message); a message is the list of its issues, each
\* issue the list of its text parts
RouteHandlerResponse(code, message) == [kind |-> "response", code |-> code, message |-> message]

ValidationPassed == [kind |-> "true"]

ConflictMessage ==
  <<"The services you've requested have different request body data requirements. To resolve this, send multiple requests, each with services that have compatible data requirements.">>

\* registeredServices.find(item => item.name === requiredService): the index, 0 if none
FindRegisteredService(registered, requiredService) ==
  IF \E i \in DOMAIN registered : registered[i].name = requiredService
  THEN CHOOSE i \in DOMAIN registered :
         /\ registered[i].name = requiredService
         /\ \A j \in DOMAIN registered : registered[j].name = requiredService => i <= j
  ELSE 0

\* the body of Object.keys(requiredData).forEach for one key: a oneOf requirement is
\* stored per service name, any other key per required shape with the names pushed
AddRequirement(req, name, requiredData, key) ==
  LET old == IF key \in DOMAIN req.map THEN req.map[key] ELSE <<>>
      new == IF key = "oneOf"
             THEN (name :> requiredData[key]) @@ old
             ELSE LET shape == requiredData[key]
                  IN (shape :> Append(IF shape \in DOMAIN old THEN old[shape] ELSE <<>>, name))
                       @@ old
  IN [order |-> IF key \in DOMAIN req.map THEN req.order ELSE Append(req.order, key),
      map |-> (key :> new) @@ req.map]

RECURSIVE AddRequirements(_, _, _, _)
AddRequirements(req, name, requiredData, keys) ==
  IF keys = {} THEN req
  ELSE LET key == CHOOSE k \in keys : TRUE
       IN AddRequirements(AddRequirement(req, name, requiredData, key),
                          name, requiredData, keys \ {key})

\* the for loop over the requested services that builds the requirements map; a service
\* that is not in the registry makes the validator throw
RECURSIVE BuildRequirements(_, _, _)
BuildRequirements(registered, serviceTasks, req) ==
  IF serviceTasks = <<>> THEN [threw |-> FALSE, req |-> req]
  ELSE LET found == FindRegisteredService(registered, Head(serviceTasks))
       IN IF found = 0 THEN [threw |-> TRUE, req |-> req]
          ELSE LET registeredService == registered[found]
               IN BuildRequirements(
                    registered, Tail(serviceTasks),
                    IF registeredService.requiredData = <<>> THEN req
                    ELSE AddRequirements(req, registeredService.name,
                                         registeredService.requiredData,
                                         DOMAIN registeredService.requiredData))

\* the keys of the requirements map that hold more than one entry
RequirementConflicts(req) ==
  {key \in DOMAIN req.map : Cardinality(DOMAIN req.map[key]) > 1}

\* the issues of one service's oneOf requirement: one for each pair none of whose keys
\* is among the keys of the request data
RECURSIVE JoinKeys(_)
JoinKeys(keys) ==
  IF keys = {} THEN <<>>
  ELSE LET key == CHOOSE k \in keys : TRUE IN <<key>> \o JoinKeys(keys \ {key})

RECURSIVE OneOfPairIssues(_, _, _)
OneOfPairIssues(service, pairs, providedKeys) ==
  IF pairs = <<>> THEN <<>>
  ELSE LET pairKeys == DOMAIN Head(pairs)
       IN (IF ~\E option \in pairKeys : option \in providedKeys
           THEN << (<<service, " service requires either ">> \o JoinKeys(pairKeys)
                      \o <<", but neither are included with the request body">>) >>
           ELSE <<>>)
          \o OneOfPairIssues(service, Tail(pairs), providedKeys)

RECURSIVE OneOfIssues(_, _, _)
OneOfIssues(oneOf, services, providedKeys) ==
  IF services = {} THEN <<>>
  ELSE LET service == CHOOSE x \in services : TRUE
       IN OneOfPairIssues(service, oneOf[service], providedKeys)
          \o OneOfIssues(oneOf, services \ {service}, providedKeys)

\* the second Object.keys(requirements).forEach: the missing data issues, key by key
RECURSIVE MissingDataIssues(_, _, _)
MissingDataIssues(req, order, requestData) ==
  IF order = <<>> THEN <<>>
  ELSE LET key == Head(order)
           providedKeys == DOMAIN requestData
           issues ==
             IF key = "oneOf"
             THEN OneOfIssues(req.map[key], DOMAIN req.map[key], providedKeys)
             ELSE IF key \notin providedKeys
             THEN << <<key, " is missing from your request body but is required for some requested services.">> >>
             ELSE LET providedType == TypeOf(requestData[key])
                      requiredType == CHOOSE shape \in DOMAIN req.map[key] : TRUE
                  IN IF providedType # requiredType
                     THEN << <<key, " in your request body has type ", providedType,
                               ", but is required to have type ", requiredType>> >>
                     ELSE <<>>
       IN issues \o MissingDataIssues(req, Tail(order), requestData)

\* #validateRequestDataForServices
ValidateRequestDataForServices(registered, requestData, serviceTasks) ==
  LET built == BuildRequirements(registered, serviceTasks, [order |-> <<>>, map |-> <<>>])
      requirements == built.req
      missingDataIssues == MissingDataIssues(requirements, requirements.order, requestData)
  IN IF built.threw THEN [kind |-> "threw"]
     ELSE IF RequirementConflicts(requirements) # {}
     THEN RouteHandlerResponse(400, <<ConflictMessage>>)
     ELSE IF missingDataIssues # <<>>
     THEN RouteHandlerResponse(400, missingDataIssues)
     ELSE ValidationPassed

\* doTasks from the validation of the request data on: the tasks are built only when
\* the validator returned true
ValidateThenBuildTasks(registered, requestData, serviceTasks, requestId) ==
  LET requiredDataValidation ==
        ValidateRequestDataForServices(registered, requestData, serviceTasks)
  IN [registered |-> registered,
      requestData |-> requestData,
      serviceTasks |-> serviceTasks,
      requiredDataValidation |-> requiredDataValidation,
      tasksToQueue |-> IF requiredDataValidation = ValidationPassed
                       THEN TasksToQueue(requestId, serviceTasks)
                       ELSE <<>>]

\* no request validated yet
NoValidation ==
  [registered |-> <<>>, requestData |-> <<>>, serviceTasks |-> <<>>,
   requiredDataValidation |-> [kind |-> "none"], tasksToQueue |-> <<>>,
   addressType |-> "none", data |-> <<>>, outcome |-> [kind |-> "none"]]

\* the body of Object.keys(results.services).forEach in #waitForTasks for one service: the
\* entry goes under failed, rejected or services by its status (the result data of an
\* entry is an object for every event of the model)
CleanResult(cleanResults, service, entry) ==
  CASE entry.status = "fail" ->
         LET failed == IF "failed" \in DOMAIN cleanResults THEN cleanResults.failed
                       ELSE [meta |-> "Services that failed due to an issue with an upstream provider.",
                             services |-> <<>>]
         IN ("failed" :> [failed EXCEPT !.services = (service :> entry.result) @@ @])
              @@ cleanResults
    [] entry.status = "reject" ->
         LET rejected == IF "rejected" \in DOMAIN cleanResults THEN cleanResults.rejected
                         ELSE [meta |-> "Services that rejected the request. This is likely due to not including data required by the service in the request.",
                               services |-> <<>>]
         IN ("rejected" :> [rejected EXCEPT !.services = (service :> entry.result) @@ @])
              @@ cleanResults
    [] entry.status = "done" ->
         LET services == IF "services" \in DOMAIN cleanResults THEN cleanResults.services
                         ELSE <<>>
         IN ("services" :> ((service :> Field(entry.result, "data")) @@ services))
              @@ cleanResults

\* the forEach over the services of a TaskBatchResult; any other status throws
RECURSIVE CleanResults(_, _, _)
CleanResults(services, names, cleanResults) ==
  IF names = {} THEN [threw |-> FALSE, cleanResults |-> cleanResults]
  ELSE LET service == CHOOSE name \in names : TRUE
       IN IF services[service].status \notin {"fail", "reject", "done"}
          THEN [threw |-> TRUE, cleanResults |-> cleanResults]
          ELSE CleanResults(services, names \ {service},
                            CleanResult(cleanResults, service, services[service]))

\* #waitForTasks after its await: the response for what the resolver's promise gave
WaitForTasksResponse(results) ==
  IF results.kind = "error"
  THEN [kind |-> "returned", response |-> RouteHandlerResponse(results.code, results.message)]
  ELSE LET clean == CleanResults(results.services, DOMAIN results.services, <<>>)
       IN IF clean.threw THEN [kind |-> "threw"]
          ELSE [kind |-> "returned",
                response |-> RouteHandlerResponse(200, clean.cleanResults)]

\* ---------------------------------------------------------------- actions
ServerInit ==
  /\ clock = 0
  /\ phase = [r \in Requests |-> "idle"]
  /\ resolver = [r \in Requests |-> NoResolver]
  /\ listeners = [completed |-> <<>>, failed |-> <<>>, removed |-> <<>>]
  /\ queue = {}
  /\ evCount = 0
  /\ submitted = [r \in Requests |-> <<>>]
  /\ lastEvent = <<>>

Init ==
  /\ ServerInit
  /\ AvailableServices = <<"IPValidationService", "JobWorkerMock">>
  /\ AvailableServiceNames = <<"ip-validation", "mock-worker">>
  /\ WorkerStart
  /\ validation = NoValidation

\* the services lists of the requests: none, one service, two services, one service twice
RequestedServices ==
  {<<>>, <<"ip-validation">>, <<"ip-validation", "mock-worker">>,
   <<"mock-worker", "mock-worker">>}

\* POST /ip/:address for a request whose services are all available and whose data
\* meets their requirements: the tasks are built and #waitForTasks runs to its await.
\* now is the clock reading: that of the request before (the same millisecond) or
\* the next one; the requests take the slots 1, 2, ... in the order they arrive
DoTasks(r, now, serviceTasks) ==
  /\ phase[r] = "idle"
  /\ \A q \in Requests : q < r => phase[q] # "idle"
  /\ now <= MaxClock
  /\ \/ now = clock + 1
     \/ now = clock /\ \E q \in Requests : phase[q] # "idle"
  /\ clock' = now
  /\ LET requestId == HashHex(<<"iso", now>>)
         tasksToQueue == TasksToQueue(requestId, serviceTasks)
         ps == WaitForTasks([resolver |-> resolver, listeners |-> listeners,
                             queue |-> queue, submitted |-> submitted],
                            r, tasksToQueue, requestId)
     IN /\ resolver' = ps.resolver
        /\ listeners' = ps.listeners
        /\ queue' = ps.queue
        /\ submitted' = ps.submitted
  /\ phase' = [phase EXCEPT ![r] = "awaiting"]
  /\ lastEvent' = <<>>
  /\ UNCHANGED evCount
  /\ UNCHANGED <<workerVars, validation>>

\* the shared QueueEvents emitter emits one event to its listeners
Emit(eventData) ==
  /\ evCount < MaxEvents
  /\ evCount' = evCount + 1
  /\ resolver' = EmitToListeners(resolver, listeners[eventData.event], eventData)
  /\ lastEvent' = <<eventData.event, eventData.jobId>>
  /\ UNCHANGED <<clock, phase, listeners, queue, submitted>>
  /\ UNCHANGED <<workerVars, validation>>

ResultDataFor(status) ==
  IF status = "done" THEN [data |-> "data"] ELSE [issues |-> <<"issue">>]

\* a worker finished a job: 'completed' carries the TaskResult the worker returned
EmitCompleted(job, status) ==
  Emit([event |-> "completed", jobId |-> job.id,
        returnvalue |-> [id |-> job.id, requestId |-> job.requestId,
                         status |-> status, resultData |-> ResultDataFor(status)]])

\* a job failed in the worker: 'failed' carries the job id and the reason
EmitFailed(job) ==
  Emit([event |-> "failed", jobId |-> job.id, failedReason |-> "boom"])

\* a job was removed from the queue
EmitRemoved(job) ==
  Emit([event |-> "removed", jobId |-> job.id])

\* the batch timeout set in the resolver's constructor expires
TimeoutFires(r) ==
  /\ resolver[r].timeout = "armed"
  /\ resolver' = [resolver EXCEPT ![r] =
                    LifecycleEmit([@ EXCEPT !.timeout = "fired"],
                                  LIFECYCLE_EVENTS.TIMEOUT).state]
  /\ lastEvent' = <<>>
  /\ UNCHANGED <<clock, phase, listeners, queue, evCount, submitted>>
  /\ UNCHANGED <<workerVars, validation>>

\* the callback #close scheduled with setTimeout(..., 0)
CloseTimerFires(r) ==
  /\ resolver[r].closeTimers > 0
  /\ resolver' = [resolver EXCEPT ![r].closeTimers = @ - 1,
                                  ![r].lifecycle = {},
                                  ![r].genFinished = TRUE,
                                  ![r].cleanups = @ + 1]
  /\ listeners' =
       [completed |-> RemoveListener(listeners.completed, Listener(r, "eventListenerCompleted")),
        failed |-> RemoveListener(listeners.failed, Listener(r, "eventListenerFailed")),
        removed |-> RemoveListener(listeners.removed, Listener(r, "eventListenerFailed"))]
  /\ lastEvent' = <<>>
  /\ UNCHANGED <<clock, phase, queue, evCount, submitted>>
  /\ UNCHANGED <<workerVars, validation>>

Next ==
  \/ \E r \in Requests, now \in 0..MaxClock, serviceTasks \in RequestedServices :
       DoTasks(r, now, serviceTasks)
  \/ \E job \in queue, status \in TaskResultStatuses : EmitCompleted(job, status)
  \/ \E job \in queue : EmitFailed(job)
  \/ \E job \in queue : EmitRemoved(job)
  \/ \E r \in Requests : TimeoutFires(r)
  \/ \E r \in Requests : CloseTimerFires(r)

Spec == Init /\ [][Next]_vars

\* ---------------------------------------------------------------- the worker process
WorkerInit ==
  /\ ServerInit
  /\ AvailableServices \in AvailableServicesVersions
  /\ AvailableServiceNames = AvailableServiceNamesVersion(AvailableServices)
  /\ WorkerStart
  /\ validation = NoValidation

\* the task data the calls of do are tried with: ip and mockResult each absent, a
\* string, the empty string or a number
IpValues == {UndefinedValue, Str("1.2.3.4"), Str("x"), Str(""), Num(7)}

MockResultValues ==
  {UndefinedValue, Str("done"), Str("fail"), Str("reject"), Str("bogus"), Num(7)}

TaskData ==
  {(IF ip = UndefinedValue THEN <<>> ELSE [ip |-> ip])
     @@ (IF mockResult = UndefinedValue THEN <<>> ELSE [mockResult |-> mockResult]) :
     ip \in IpValues, mockResult \in MockResultValues}

Tasks ==
  [id : {Undefined, "t1"}, requestId : {Undefined, "r1"},
   serviceName : {"ip-validation", "mock-worker"}, data : TaskData]

\* a service module is imported: its @Service decorator runs
ServiceDecorator ==
  /\ Len(registeredServices) < Len(AvailableServices)
  /\ LET out == Service(metadata, registeredServices,
                        AvailableServices[Len(registeredServices) + 1])
     IN /\ metadata' = out.metadata
        /\ registeredServices' = out.registeredServices
  /\ UNCHANGED <<AvailableServices, AvailableServiceNames, serviceInstances, instantiated,
               doCall, active>>
  /\ UNCHANGED <<serverVars, validation>>

\* one iteration of AvailableServices.forEach in worker.ts: the class is instantiated
\* and stored in the directory under the name its metadata gives
NewInstance ==
  /\ Len(registeredServices) = Len(AvailableServices)
  /\ Len(instantiated) < Len(AvailableServices)
  /\ ValidateInstanceMetadata(metadata)
  /\ LET target == AvailableServices[Len(instantiated) + 1]
     IN /\ instantiated' = Append(instantiated, target)
        /\ serviceInstances' =
             (GetTaskServiceMetadataName(metadata) :> target) @@ serviceInstances
  /\ UNCHANGED <<AvailableServices, AvailableServiceNames, metadata, registeredServices,
               doCall, active>>
  /\ UNCHANGED <<serverVars, validation>>

\* do(task) is called on the instance of a service class and returns its promise;
\* doCall is the latest call, so a call made while the promise of the one before is
\* pending takes its place
ServiceDo(class, task) ==
  /\ Len(instantiated) = Len(AvailableServices)
  /\ \E i \in DOMAIN instantiated : instantiated[i] = class
  /\ doCall' = DoAtReturn(metadata, class, task)
  /\ UNCHANGED <<AvailableServices, AvailableServiceNames, metadata, registeredServices,
               serviceInstances, instantiated, active>>
  /\ UNCHANGED <<serverVars, validation>>

\* the then-callback of do() has yet to run for the latest call: its promise is pending
\* and the promise processTask returned is resolved
ThenCallbackQueued ==
  /\ doCall.class \in {"IPValidationService", "JobWorkerMock"}
  /\ doCall.promise.kind = "pending"
  /\ Do(metadata, doCall.class, doCall.task).promise.kind = "resolved"

\* the then-callback of do() runs with the result of processTask and resolves the
\* promise of the call with it
ServiceDoThen ==
  /\ ThenCallbackQueued
  /\ doCall' = Do(metadata, doCall.class, doCall.task)
  /\ UNCHANGED <<AvailableServices, AvailableServiceNames, metadata, registeredServices,
               serviceInstances, instantiated, active>>
  /\ UNCHANGED <<serverVars, validation>>

WorkerNext ==
  \/ ServiceDecorator
  \/ NewInstance
  \/ \E class \in {"IPValidationService", "JobWorkerMock"}, task \in Tasks :
       ServiceDo(class, task)
  \/ ServiceDoThen

SpecWorker == WorkerInit /\ [][WorkerNext]_vars

\* ---------------------------------------------------------------- the server's validation
\* the two arrays services/index.ts exports, as the server process loads them: those of
\* the repository; those with the rdap service added to both; a pair of services whose
\* requirements conflict; a pair of services that each have a oneOf requirement; and the
\* repository's classes with the name rdap added to the names only, the two arrays being
\* maintained by hand
ServerServiceLists ==
  {[classes |-> <<"IPValidationService", "JobWorkerMock">>,
    names |-> <<"ip-validation", "mock-worker">>],
   [classes |-> <<"IPValidationService", "JobWorkerMock", "RDAPService">>,
    names |-> <<"ip-validation", "mock-worker", "rdap">>],
   [classes |-> <<"IPValidationService", "IPNumberService">>,
    names |-> <<"ip-validation", "ip-number">>],
   [classes |-> <<"WhoisService", "RDAPService">>,
    names |-> <<"whois", "rdap">>],
   [classes |-> <<"IPValidationService", "JobWorkerMock">>,
    names |-> <<"ip-validation", "mock-worker", "rdap">>]}

ValidatorInit ==
  /\ ServerInit
  /\ \E lists \in ServerServiceLists :
       /\ AvailableServices = lists.classes
       /\ AvailableServiceNames = lists.names
  /\ WorkerStart
  /\ validation = NoValidation

\* addressType of doTasks: the address of the route is an IP address, a domain name, or
\* neither (false)
AddressTypes == {"ip", "domain", "false"}

\* request.body.data
BodyData ==
  {<<>>, [mockResult |-> Str("done")], [mockResult |-> Str("fail")],
   [mockResult |-> Num(7)], [ip |-> Num(7)]}

\* requestData = {...data, ip, domain}: the member the address is not is set to false
RequestData(addressType, data) ==
  [ip |-> IF addressType = "ip" THEN Str("1.2.3.4") ELSE <<"boolean", FALSE>>,
   domain |-> IF addressType = "domain" THEN Str("example.com") ELSE <<"boolean", FALSE>>]
    @@ data

ServiceNames == {"ip-validation", "mock-worker", "rdap", "ip-number", "whois"}

\* the services lists the validator is given: up to two names
ServiceTaskLists ==
  {<<>>} \cup {<<a>> : a \in ServiceNames} \cup {<<a, b>> : a \in ServiceNames, b \in ServiceNames}

\* the 400 response of doTasks for an address that is neither an IP address nor a domain
AddressNotValid ==
  RouteHandlerResponse(400,
    <<<<"'address' parameter passed to /ip/<address> not a valid IP address or domain name">>>>)

\* the availability check of doTasks: the requested names AvailableServiceNames does not
\* include, in the order of the request
InvalidServices(availableServiceNames, serviceTasks) ==
  SelectSeq(serviceTasks,
            LAMBDA task : \A i \in DOMAIN availableServiceNames :
                            availableServiceNames[i] # task)

\* the 404 response of doTasks for requested services that are not available: the text
\* and the names it lists
ServicesDoNotExist(invalidServices) ==
  RouteHandlerResponse(404, <<<<"Requested services do not exist: ">> \o invalidServices>>)

\* how doTasks leaves before or at the dispatch: it returns a response, it throws, or it
\* goes on to #waitForTasks
Outcome(addressType, invalidServices, requiredDataValidation) ==
  IF addressType = "false" THEN [kind |-> "returned", response |-> AddressNotValid]
  ELSE IF invalidServices # <<>>
       THEN [kind |-> "returned", response |-> ServicesDoNotExist(invalidServices)]
  ELSE IF requiredDataValidation.kind = "threw" THEN [kind |-> "threw"]
  ELSE IF requiredDataValidation.kind = "response"
       THEN [kind |-> "returned", response |-> requiredDataValidation]
  ELSE [kind |-> "dispatched"]

\* doTasks from the address check to the building of the tasks: the address check, the
\* availability check of the services named, the validation of the request data
DoTasksBeforeDispatch(registered, availableServiceNames, addressType, data, serviceTasks, requestId) ==
  IF \/ addressType = "false"
     \/ InvalidServices(availableServiceNames, serviceTasks) # <<>>
  THEN [NoValidation EXCEPT !.addressType = addressType, !.data = data,
                            !.registered = registered, !.serviceTasks = serviceTasks,
                            !.outcome =
                               Outcome(addressType,
                                       InvalidServices(availableServiceNames, serviceTasks),
                                       [kind |-> "none"])]
  ELSE LET v == ValidateThenBuildTasks(registered, RequestData(addressType, data),
                                       serviceTasks, requestId)
       IN  [registered |-> v.registered, requestData |-> v.requestData,
            serviceTasks |-> v.serviceTasks,
            requiredDataValidation |-> v.requiredDataValidation,
            tasksToQueue |-> v.tasksToQueue,
            addressType |-> addressType, data |-> data,
            outcome |-> Outcome(addressType, <<>>, v.requiredDataValidation)]

\* variant: the tasks are built and dispatched whatever the validation said
DispatchAlways(ps, out, r, requestId) ==
  WaitForTasks(ps, r, TasksToQueue(requestId, out.serviceTasks), requestId)

\* the end of doTasks: #waitForTasks with the tasks built, reached only when nothing was
\* returned or thrown before
DispatchIfValid(ps, out, r, requestId) ==
  IF out.outcome.kind = "dispatched"
  THEN WaitForTasks(ps, r, out.tasksToQueue, requestId)
  ELSE ps

\* the route handler of serve awaits doTasks and sends what it returns; with no catch
\* around the await, a throw of doTasks sends nothing
SendResponse(outcome) ==
  IF outcome.kind = "returned"
  THEN [sent |-> TRUE, statusCode |-> outcome.response.code, data |-> outcome.response.message]
  ELSE [sent |-> FALSE]

\* one request to doTasks, from the address check to the dispatch of its tasks
ValidateRequest(addressType, data, serviceTasks) ==
  /\ Len(registeredServices) = Len(AvailableServices)
  /\ phase[1] = "idle"
  /\ LET requestId == HashHex(<<"iso", clock>>)
         out == DoTasksBeforeDispatch(registeredServices, AvailableServiceNames,
                                      addressType, data, serviceTasks, requestId)
         ps  == DispatchIfValid([resolver |-> resolver, listeners |-> listeners,
                                 queue |-> queue, submitted |-> submitted],
                                out, 1, requestId)
     IN  /\ validation' = out
         /\ resolver' = ps.resolver
         /\ listeners' = ps.listeners
         /\ queue' = ps.queue
         /\ submitted' = ps.submitted
         /\ phase' = IF out.outcome.kind = "dispatched"
                     THEN [phase EXCEPT ![1] = "awaiting"] ELSE phase
  /\ UNCHANGED <<clock, evCount, lastEvent, workerVars>>

ValidatorNext ==
  \/ ServiceDecorator
  \/ \E addressType \in AddressTypes, data \in BodyData, serviceTasks \in ServiceTaskLists :
       ValidateRequest(addressType, data, serviceTasks)

SpecValidator == ValidatorInit /\ [][ValidatorNext]_vars

\* ---------------------------------------------------------------- server and worker, end to end
\* processJob of worker.ts for a job of the queue: the task is the job's data; the service
\* is looked up in the directory by the task's serviceName and its do() awaited. The
\* outcome is the promise processJob returns: rejected when no service is found or do()
\* rejects, resolved with the TaskResult of do(), pending while do() is
ProcessJobCall(md, instances, task) ==
  IF task.serviceName \notin DOMAIN instances
  THEN [NoCall EXCEPT !.class = "undefined", !.task = task,
                      !.promise = [kind |-> "rejected",
                                   value |-> <<"Error", "service 'undefined' not found in serviceDirectory">>]]
  ELSE Do(md, instances[task.serviceName], task)

\* the Worker of worker.ts takes a waiting job of the queue and calls processJob on it,
\* the job's data being the task; processJob runs until it returns to its caller: with
\* no service under the task's name it has thrown and its promise is rejected; otherwise
\* do() has been called, processTask with it, and processJob is suspended at
\* `await service.do(task)` with its promise pending
ProcessJob(job) ==
  /\ Len(instantiated) = Len(AvailableServices)
  /\ job \in queue
  /\ queue' = queue \ {job}
  /\ LET task == [id |-> job.id, requestId |-> job.requestId,
                  serviceName |-> job.serviceName, data |-> validation.requestData]
         call == ProcessJobCall(metadata, serviceInstances, task)
         found == task.serviceName \in DOMAIN serviceInstances
         atReturn == IF found THEN [call EXCEPT !.promise = Pending] ELSE call
     IN /\ doCall' = atReturn
        /\ active' = active \cup
             {[job |-> job, task |-> task,
               pos |-> IF found THEN "awaiting" ELSE "settled",
               call |-> atReturn]}
  /\ UNCHANGED <<clock, phase, resolver, listeners, evCount, submitted, lastEvent>>
  /\ UNCHANGED <<AvailableServices, AvailableServiceNames, metadata, registeredServices,
                 serviceInstances, instantiated, validation>>

\* the promise of do() has settled and processJob resumes after its await: it returns
\* the TaskResult or lets the rejection through. A do() that never settles leaves
\* processJob suspended.
ProcessJobResumes(a) ==
  /\ a \in active
  /\ a.pos = "awaiting"
  /\ LET call == ProcessJobCall(metadata, serviceInstances, a.task)
     IN /\ call.promise.kind # "pending"
        /\ doCall' = call
        /\ active' = (active \ {a}) \cup {[a EXCEPT !.pos = "settled", !.call = call]}
  /\ UNCHANGED <<clock, phase, resolver, listeners, queue, evCount, submitted, lastEvent>>
  /\ UNCHANGED <<AvailableServices, AvailableServiceNames, metadata, registeredServices,
                 serviceInstances, instantiated, validation>>

\* the events of the shared QueueEvents emitter about a job processJob has finished
\* with: 'completed' with what processJob returned as returnvalue, 'failed' with the
\* message of what it threw as failedReason. They are inputs of the server: the queue
\* emits them, the resolver's listeners handle them.
QueueEventsOf(a) ==
  CASE a.call.promise.kind = "resolved" ->
         {[event |-> "completed", jobId |-> a.job.id, returnvalue |-> a.call.promise.value]}
    [] a.call.promise.kind = "rejected" ->
         {[event |-> "failed", jobId |-> a.job.id, failedReason |-> a.call.promise.value[2]]}
    [] OTHER -> {}

\* an event about a finished job arrives at the listeners of the resolvers
QueueEventArrives(a) ==
  /\ a \in active
  /\ a.pos = "settled"
  /\ \E eventData \in QueueEventsOf(a) : Emit(eventData)

EndToEndNext ==
  \/ ServiceDecorator
  \/ NewInstance
  \/ \E addressType \in AddressTypes, data \in BodyData, serviceTasks \in RequestedServices :
       ValidateRequest(addressType, data, serviceTasks)
  \/ \E job \in queue : ProcessJob(job)
  \/ \E a \in active : ProcessJobResumes(a)
  \/ \E a \in active : QueueEventArrives(a)
  \/ \E r \in Requests : TimeoutFires(r)
  \/ \E r \in Requests : CloseTimerFires(r)

SpecEndToEnd == Init /\ [][EndToEndNext]_vars

\* ---------------------------------------------------------------- the resolver as a class
\* a client of RequestTaskBatchResolver that may call results() at any time after the
\* construction: new RequestTaskBatchResolver(batch) followed by the queuing of the batch
Construct(now, serviceTasks) ==
  /\ phase[1] = "idle"
  /\ now = clock + 1
  /\ now <= MaxClock
  /\ clock' = now
  /\ LET requestId == HashHex(<<"iso", now>>)
         tasks == TasksToQueue(requestId, serviceTasks)
         ps == QueueTaskBatch(NewResolver([resolver |-> resolver, listeners |-> listeners,
                                           queue |-> queue, submitted |-> submitted],
                                          1, [requestId |-> requestId, tasks |-> tasks]),
                              1, tasks)
     IN /\ resolver' = ps.resolver
        /\ listeners' = ps.listeners
        /\ queue' = ps.queue
        /\ submitted' = ps.submitted
  /\ phase' = [phase EXCEPT ![1] = "constructed"]
  /\ lastEvent' = <<>>
  /\ UNCHANGED evCount
  /\ UNCHANGED <<workerVars, validation>>

\* the client calls results() for the first time and awaits the promise
CallResults ==
  /\ phase[1] = "constructed"
  /\ LET ps == Results([resolver |-> resolver, listeners |-> listeners,
                        queue |-> queue, submitted |-> submitted], 1)
     IN resolver' = ps.resolver
  /\ phase' = [phase EXCEPT ![1] = "awaiting"]
  /\ lastEvent' = <<>>
  /\ UNCHANGED <<clock, listeners, queue, evCount, submitted>>
  /\ UNCHANGED <<workerVars, validation>>

ResolverNext ==
  \/ \E now \in 0..MaxClock, serviceTasks \in RequestedServices : Construct(now, serviceTasks)
  \/ CallResults
  \/ \E job \in queue, status \in TaskResultStatuses : EmitCompleted(job, status)
  \/ \E job \in queue : EmitFailed(job)
  \/ \E job \in queue : EmitRemoved(job)
  \/ \E r \in Requests : TimeoutFires(r)
  \/ \E r \in Requests : CloseTimerFires(r)

SpecResolver == Init /\ [][ResolverNext]_vars

\* ---------------------------------------------------------------- properties
N(r) == Len(resolver[r].batch.tasks)

Recorded(r) == DOMAIN resolver[r].jobResults

\* the queue events that can be emitted for a job
EventsOf(job) ==
  {[event |-> "completed", jobId |-> job.id,
    returnvalue |-> [id |-> job.id, requestId |-> job.requestId,
                     status |-> status, resultData |-> ResultDataFor(status)]] :
     status \in TaskResultStatuses}
  \cup {[event |-> "failed", jobId |-> job.id, failedReason |-> "boom"],
        [event |-> "removed", jobId |-> job.id]}

\* an event belongs to a batch by the requestId it carries (completed) or by its
\* job id being the id of a task of the batch (failed, removed)
BelongsTo(eventData, batch) ==
  IF eventData.event = "completed"
  THEN eventData.returnvalue.requestId = batch.requestId
  ELSE eventData.jobId \in TaskIds(batch)

\* no other request was given the requestId of request r
OwnRequestId(r) ==
  \A q \in Requests \ {r} :
    phase[q] = "awaiting" => resolver[q].batch.requestId # resolver[r].batch.requestId

ListenersOf(ls, r) ==
  [type \in {"completed", "failed", "removed"} |->
     SelectSeq(ls[type], LAMBDA l : l.r = r)]

\* C1: the promise of results() is settled at most once, by the transition that fires
\* first: a TaskBatchResult only with the timeout cancelled, the 504 TaskBatchError only
\* with the timeout fired, and once settled its value never changes, whatever fires later.
C1_ResolvedOnceFirstWins ==
  /\ [](\A r \in Requests :
          /\ resolver[r].promise.kind \in {"unresolved", "result", "error"}
          /\ resolver[r].promise.kind = "result" => resolver[r].timeout = "cleared"
          /\ resolver[r].promise.kind = "error" => resolver[r].timeout = "fired")
  /\ [][\A r \in Requests :
          resolver[r].promise.kind # "unresolved"
            => resolver'[r].promise = resolver[r].promise]_vars

\* the timeout won and the done transition fired after it: resolve was called a second
\* time and the value is still the timeout error
C1_Witness ==
  \E r \in Requests :
    /\ resolver[r].promise.kind = "error"
    /\ resolver[r].resolveCalls = 2
    /\ resolver[r].timeout = "fired"

\* C2: once an event has been recorded for each of the N >= 1 tasks of a batch (of a
\* requestId of its own) and the timeout has not fired, the promise is settled, by one call of resolve, with a
\* TaskBatchResult of exactly N service entries, the entry of each task's service
\* carrying that task's id and the done / fail / reject status recorded for it.
C2_AllEventsResolveWithNEntries ==
  \A r \in Requests :
    (/\ phase[r] = "awaiting"
     /\ OwnRequestId(r)
     /\ N(r) >= 1
     /\ resolver[r].timeout # "fired"
     /\ TaskIds(resolver[r].batch) \subseteq Recorded(r))
    => /\ resolver[r].promise.kind = "result"
       /\ resolver[r].resolveCalls = 1
       /\ Cardinality(DOMAIN resolver[r].promise.services) = N(r)
       /\ \A i \in DOMAIN resolver[r].batch.tasks :
            LET task == resolver[r].batch.tasks[i]
                entry == resolver[r].promise.services[task.serviceName]
            IN /\ entry.id = task.id
               /\ entry.status \in TaskResultStatuses

\* C3: no request is left hanging: while the promise of an awaiting request (of a
\* requestId of its own) is unsettled, its timeout timer is armed or has fired.
C3_NeverLeftHanging ==
  \A r \in Requests :
    (phase[r] = "awaiting" /\ OwnRequestId(r) /\ resolver[r].promise.kind = "unresolved")
      => resolver[r].timeout \in {"armed", "fired"}

\* C4: the remaining-count is the number of tasks of the batch less the number of
\* distinct task ids with a recorded outcome, for as long as the resolver (of a
\* requestId of its own) is not cleaned up.
C4_DecrementOncePerTaskId ==
  \A r \in Requests :
    (phase[r] = "awaiting" /\ OwnRequestId(r) /\ resolver[r].cleanups = 0)
      => resolver[r].tasksLeft
           = N(r) - Cardinality(Recorded(r) \cap TaskIds(resolver[r].batch))

\* C5: an event that does not belong to a resolver's batch leaves that resolver's
\* remaining-count and recorded outcomes as they were.
C5_CrossBatchIsolation ==
  [][\A r \in Requests :
       (\/ resolver'[r].tasksLeft # resolver[r].tasksLeft
        \/ resolver'[r].jobResults # resolver[r].jobResults)
         => \A job \in queue : \A eventData \in EventsOf(job) :
              ~BelongsTo(eventData, resolver[r].batch) => ~Emit(eventData)]_vars

\* request 1 is still subscribed and untouched, with all its tasks pending, while an
\* event of the other batch (another requestId) has been recorded by request 2
C5_Witness ==
  /\ phase[1] = "awaiting" /\ phase[2] = "awaiting"
  /\ resolver[1].batch.requestId # resolver[2].batch.requestId
  /\ Subscribed(listeners, 1)
  /\ N(1) >= 1 /\ resolver[1].tasksLeft = N(1) /\ Recorded(1) = {}
  /\ Recorded(2) # {}

\* C6: when the timeout fires the promise is settled with an error of code 504 that
\* holds no services, however many outcomes were recorded; no other error is produced.
C6_TimeoutIs504WithoutOutcomes ==
  /\ [](\A r \in Requests :
          resolver[r].promise.kind = "error"
            => /\ resolver[r].promise.code = 504
               /\ "services" \notin DOMAIN resolver[r].promise)
  /\ [][\A r \in Requests :
          (resolver[r].timeout = "armed" /\ resolver'[r].timeout = "fired")
            => /\ resolver'[r].promise.kind = "error"
               /\ resolver'[r].promise.code = 504
               /\ "services" \notin DOMAIN resolver'[r].promise]_vars

\* a batch of two tasks timed out with one outcome recorded
C6_Witness ==
  \E r \in Requests :
    /\ resolver[r].promise.kind = "error"
    /\ N(r) = 2
    /\ Cardinality(Recorded(r)) = 1
    /\ resolver[r].tasksLeft = 1

\* C7: once settled, nothing is done again: the cleanup of a resolver runs at most once.
C7_CleanupAtMostOnce ==
  \A r \in Requests : resolver[r].cleanups <= 1

\* C8: once a resolver's cleanup has run, none of its listeners is left on the shared
\* event stream.
C8_NoListenerAfterCleanup ==
  \A r \in Requests :
    resolver[r].cleanups >= 1
      => \A type \in {"completed", "failed", "removed"} :
           \A i \in DOMAIN listeners[type] : listeners[type][i].r # r

\* C9: a cleanup step of one resolver leaves the listeners of every other resolver on
\* the shared stream as they were, and a resolver that has not been cleaned up is
\* subscribed to all three event types.
C9_CleanupRemovesOnlyOwnListeners ==
  /\ [](\A b \in Requests :
          (phase[b] = "awaiting" /\ resolver[b].cleanups = 0)
            => Subscribed(listeners, b))
  /\ [][\A a \in Requests :
          resolver'[a].cleanups = resolver[a].cleanups + 1
            => \A b \in Requests \ {a} :
                 ListenersOf(listeners', b) = ListenersOf(listeners, b)]_vars

\* one resolver has been cleaned up and the other, still listening, has since been
\* settled with the result of its own events
C9_Witness ==
  \E a \in Requests, b \in Requests :
    /\ a # b
    /\ resolver[a].cleanups >= 1
    /\ resolver[a].promise.kind = "error" /\ Recorded(a) = {}
    /\ resolver[b].batch.requestId # resolver[a].batch.requestId
    /\ resolver[b].cleanups = 0 /\ Subscribed(listeners, b)
    /\ resolver[b].promise.kind = "result"

\* C10: every task of a batch was submitted to the queue with its resolver subscribed
\* to the event stream and its timeout armed, and all the tasks were submitted.
C10_SubscribedBeforeSubmit ==
  \A r \in Requests :
    /\ \A i \in DOMAIN submitted[r] :
         submitted[r][i].subscribed /\ submitted[r][i].armed
    /\ phase[r] = "awaiting"
         => [i \in DOMAIN submitted[r] |-> submitted[r][i].id]
              = [i \in DOMAIN resolver[r].batch.tasks |-> resolver[r].batch.tasks[i].id]

\* a batch of two tasks has been queued
C10_Witness ==
  \E r \in Requests :
    /\ Len(submitted[r]) = 2
    /\ \A i \in 1..2 : \E job \in queue : job.id = submitted[r][i].id

\* the issue #eventListenerRemoved writes for a job removed before it was processed
RemovedIssue == "Job removed from queue before processing for unknown reason"

\* C11: a 'removed' event for a task of the batch that already has a recorded outcome
\* changes nothing of the resolver: not the recorded outcomes, not the remaining-count,
\* not the lifecycle listeners, the promise or the timers.
C11_RemovedAfterRecordedIsNoOp ==
  [][\A r \in Requests :
       resolver'[r] # resolver[r]
         => \A job \in queue :
              (job.id \in TaskIds(resolver[r].batch) /\ job.id \in Recorded(r))
                => ~EmitRemoved(job)]_vars

\* the latest step emitted 'removed' for a task whose done completion is recorded, and
\* the resolver that recorded it still listens for removed events
C11_Witness ==
  \E r \in Requests :
    /\ lastEvent # <<>> /\ lastEvent[1] = "removed"
    /\ lastEvent[2] \in TaskIds(resolver[r].batch)
    /\ lastEvent[2] \in Recorded(r)
    /\ Field(resolver[r].jobResults[lastEvent[2]], "status") = "done"
    /\ \E i \in DOMAIN listeners.removed :
         listeners.removed[i] = Listener(r, "eventListenerRemoved")

\* C12: the outcome recorded for a task removed before it had one is a TaskResult of
\* status fail carrying the removal issue.
C12_RemovedUnrecordedIsFail ==
  \A r \in Requests : \A id \in Recorded(r) :
    resolver[r].jobResults[id].resultData = [issues |-> <<RemovedIssue>>]
      => Field(resolver[r].jobResults[id], "status") = "fail"

\* C13: a 'failed' event emitted while a resolver listens, for a task of its batch that
\* has no recorded outcome, makes the resolver record for that task a TaskResult of
\* status fail whose issues are exactly the event's failure reason, leaving the other
\* recorded outcomes alone, and decrement the remaining-count by one.
C13_FailedRecordsFailWithReason ==
  [][\A r \in Requests : \A job \in queue :
       (/\ phase[r] = "awaiting"
        /\ job.id \in TaskIds(resolver[r].batch)
        /\ job.id \notin Recorded(r)
        /\ \E i \in DOMAIN listeners.failed :
             listeners.failed[i] = Listener(r, "eventListenerFailed")
        /\ EmitFailed(job))
       => /\ DOMAIN resolver'[r].jobResults = Recorded(r) \cup {job.id}
          /\ \A id \in Recorded(r) : resolver'[r].jobResults[id] = resolver[r].jobResults[id]
          /\ resolver'[r].jobResults[job.id].id = job.id
          /\ resolver'[r].jobResults[job.id].status = "fail"
          /\ resolver'[r].jobResults[job.id].resultData = [issues |-> <<"boom">>]
          /\ resolver'[r].tasksLeft = resolver[r].tasksLeft - 1]_vars

\* C14: the step in which the remaining-count of a resolver whose promise is unsettled
\* reaches zero settles the promise with a TaskBatchResult keyed by the service names of
\* the batch: for every task of the batch, the entry of the task's service carries that
\* task's id and the status and result data recorded for that task id. (Stated for a
\* resolver whose requestId no other request shares.)
C14_ResultKeyedByServiceName ==
  [][\A r \in Requests :
       (/\ phase[r] = "awaiting" /\ OwnRequestId(r)
        /\ resolver[r].promise.kind = "unresolved"
        /\ resolver[r].tasksLeft > 0
        /\ resolver'[r].tasksLeft = 0)
         => LET batch == resolver'[r].batch
                jobResults == resolver'[r].jobResults
            IN /\ resolver'[r].promise.kind = "result"
               /\ DOMAIN resolver'[r].promise.services
                    = {batch.tasks[i].serviceName : i \in DOMAIN batch.tasks}
               /\ \A i \in DOMAIN batch.tasks :
                    LET task == batch.tasks[i]
                    IN /\ task.id \in DOMAIN jobResults
                       /\ resolver'[r].promise.services[task.serviceName] =
                            [id |-> task.id,
                             status |-> Field(jobResults[task.id], "status"),
                             result |-> Field(jobResults[task.id], "resultData")]]_vars

\* C15: an outcome recorded for a task id stays as it was recorded: no step removes or
\* replaces an entry of the mapping from task id to TaskResult.
C15_RecordedOutcomeNeverOverwritten ==
  [][\A r \in Requests : \A id \in Recorded(r) :
       /\ id \in DOMAIN resolver'[r].jobResults
       /\ resolver'[r].jobResults[id] = resolver[r].jobResults[id]]_vars

\* the structural violations of a task given to the service of a class, as the contract
\* lists them: no id, no requestId, a serviceName other than the service's own name, and
\* each key of the service's required data absent from the data or of another shape
StructuralViolations(class, task) ==
  LET config == ServiceConfig(class)
  IN (IF task.id = Undefined THEN {"id"} ELSE {})
     \cup (IF task.requestId = Undefined THEN {"requestId"} ELSE {})
     \cup (IF task.serviceName # config.name THEN {"serviceName"} ELSE {})
     \cup {key \in DOMAIN config.requiredData :
             TypeOf(DataField(task.data, key)) # config.requiredData[key]}

\* C16: the promise of every do() call is resolved, never rejected and never left pending
\* once its then-callback has had its turn, and when the execution step of a valid task
\* raised, it is resolved with status fail.
C16_DoAlwaysResolves ==
  (doCall.class # "none" /\ ~ThenCallbackQueued)
    => /\ doCall.promise.kind = "resolved"
       /\ (doCall.taskValidation = <<>> /\ doCall.processed \in {"threw", "rejected"})
            => doCall.promise.value.status = "fail"

\* C17: a do() call whose task failed validation did not invoke processTask.
C17_NoProcessTaskAfterReject ==
  (doCall.class # "none" /\ doCall.taskValidation # <<>>) => ~doCall.processTaskCalled

\* C18: do() resolves with status reject exactly when the task has a structural
\* violation, and then with one issue per violation.
C18_RejectExactlyOnViolations ==
  doCall.class # "none"
    => LET violations == StructuralViolations(doCall.class, doCall.task)
           rejected == /\ doCall.promise.kind = "resolved"
                       /\ doCall.promise.value.status = "reject"
       IN /\ rejected <=> violations # {}
          /\ violations # {}
               => /\ "issues" \in DOMAIN doCall.promise.value.resultData
                  /\ Len(doCall.promise.value.resultData.issues) = Cardinality(violations)

\* C19: do() of a service reports the service-name violation exactly when the task's
\* serviceName differs from the name that service was registered with, however many
\* services are registered.
C19_ServiceNameCheckedAgainstOwnName ==
  doCall.class # "none"
    => ((\E i \in DOMAIN doCall.taskValidation :
           doCall.taskValidation[i][1] = "Task addressed to service sent to incorrect service")
        <=> doCall.task.serviceName # ServiceConfig(doCall.class).name)

\* the required data of a requested service, empty when the registry has no such service
RequiredDataOf(registered, name) ==
  IF FindRegisteredService(registered, name) = 0 THEN <<>>
  ELSE registered[FindRegisteredService(registered, name)].requiredData

\* the pairs of requested services that require one field in different shapes
ConflictingServices(registered, serviceTasks) ==
  {pair \in (DOMAIN serviceTasks) \X (DOMAIN serviceTasks) :
     LET a == RequiredDataOf(registered, serviceTasks[pair[1]])
         b == RequiredDataOf(registered, serviceTasks[pair[2]])
     IN \E key \in (DOMAIN a \cap DOMAIN b) \ {"oneOf"} : a[key] # b[key]}

\* a message names a service when the service's name is one of its text parts
NamesService(message, name) ==
  \E i \in DOMAIN message : \E j \in DOMAIN message[i] : message[i][j] = name

\* C20: when two requested services (both registered) require one field in different
\* shapes, the validator returns one error of code 400 that names both services, and no
\* task has been built.
C20_ConflictErrorNamesBothServices ==
  LET conflicting == ConflictingServices(validation.registered, validation.serviceTasks)
      result == validation.requiredDataValidation
  IN (result.kind \notin {"none", "threw"} /\ conflicting # {})
       => /\ result.kind = "response"
          /\ result.code = 400
          /\ Len(result.message) = 1
          /\ validation.tasksToQueue = <<>>
          /\ \A pair \in conflicting :
               /\ NamesService(result.message, validation.serviceTasks[pair[1]])
               /\ NamesService(result.message, validation.serviceTasks[pair[2]])

\* what the client sent: the address is the payload's ip or its domain, the other one is
\* not in the payload; any other field is in the payload when request.body.data has it
PayloadHas(request, key) ==
  IF key \in {"ip", "domain"} THEN request.addressType = key
  ELSE key \in DOMAIN request.data

\* the requested services, all registered, whose required data has a oneOf
OneOfServices(request) ==
  IF \E i \in DOMAIN request.serviceTasks :
       FindRegisteredService(request.registered, request.serviceTasks[i]) = 0
  THEN {}
  ELSE {request.serviceTasks[i] : i \in
          {j \in DOMAIN request.serviceTasks :
             "oneOf" \in DOMAIN RequiredDataOf(request.registered, request.serviceTasks[j])}}

\* C21: a request for a service whose required data is a oneOf of ip or domain, with
\* neither ip nor domain in the payload, is answered by an error of code 400 with a
\* missing-requirement issue that names that service.
C21_OneOfMissingNamesService ==
  \A name \in OneOfServices(validation) :
    (/\ validation.outcome.kind # "none"
     /\ ~PayloadHas(validation, "ip")
     /\ ~PayloadHas(validation, "domain"))
      => /\ validation.outcome.kind = "returned"
         /\ validation.outcome.response.code = 400
         /\ NamesService(validation.outcome.response.message, name)

\* the validator ran for the request and returned, and the requested services are
\* conflict-free: no field is required in two shapes
ValidatorChecked(request) ==
  /\ request.requiredDataValidation.kind \in {"true", "response"}
  /\ ConflictingServices(request.registered, request.serviceTasks) = {}

\* the issues of the validator's result, none when it returned true
IssuesOf(request) ==
  IF request.requiredDataValidation.kind = "response"
  THEN request.requiredDataValidation.message
  ELSE <<>>

\* the issues that name a service
IssuesNaming(message, name) ==
  {i \in DOMAIN message : \E j \in DOMAIN message[i] : message[i][j] = name}

\* the oneOf list of a requested service
OneOfOf(request, name) == RequiredDataOf(request.registered, name).oneOf

\* the elements of a service's oneOf list none of whose fields is in the payload
OneOfGroupsUnsatisfied(request, name) ==
  {g \in DOMAIN OneOfOf(request, name) :
     ~\E field \in DOMAIN OneOfOf(request, name)[g] : PayloadHas(request, field)}

\* C22: the oneOf check of a requested service passes exactly when one element of its
\* oneOf list has all its fields in the payload; when none has, exactly one issue names
\* the service.
C22_OneOfPassesWhenSetFullyPresent ==
  \A name \in OneOfServices(validation) :
    ValidatorChecked(validation)
      => LET fullyPresent ==
               \E g \in DOMAIN OneOfOf(validation, name) :
                 \A field \in DOMAIN OneOfOf(validation, name)[g] :
                   PayloadHas(validation, field)
             issues == IssuesNaming(IssuesOf(validation), name)
         IN /\ fullyPresent <=> issues = {}
            /\ ~fullyPresent => Cardinality(issues) = 1

\* the non-oneOf fields the requested services require
RequiredFields(request) ==
  UNION {DOMAIN RequiredDataOf(request.registered, request.serviceTasks[i]) \ {"oneOf"} :
           i \in DOMAIN request.serviceTasks}

\* the shape a required field must have (one shape, the services being conflict-free)
RequiredShape(request, key) ==
  LET i == CHOOSE j \in DOMAIN request.serviceTasks :
             key \in DOMAIN RequiredDataOf(request.registered, request.serviceTasks[j])
  IN RequiredDataOf(request.registered, request.serviceTasks[i])[key]

\* the required fields that are not in the payload or whose value has another type
MissingOrMismatched(request) ==
  {key \in RequiredFields(request) :
     \/ ~PayloadHas(request, key)
     \/ TypeOf(request.requestData[key]) # RequiredShape(request, key)}

\* the issues collected about a field: those that start with its name
IssuesAbout(message, key) == {i \in DOMAIN message : message[i][1] = key}

\* C23: for requested services without conflict, the validator collects exactly one issue
\* for each required non-oneOf field that is missing from the payload or has another type
\* than required, and none for the other fields; it returns an error of code 400 if it
\* collected any issue and success otherwise, that is when no required field is missing
\* or mismatched and no oneOf requirement is left without a field in the payload.
C23_OneIssuePerMissingOrMismatchedField ==
  ValidatorChecked(validation)
    => LET issues == IssuesOf(validation)
           result == validation.requiredDataValidation
       IN /\ \A key \in RequiredFields(validation) :
               Cardinality(IssuesAbout(issues, key))
                 = IF key \in MissingOrMismatched(validation) THEN 1 ELSE 0
          /\ MissingOrMismatched(validation) # {}
               => result.kind = "response" /\ result.code = 400
          /\ (/\ MissingOrMismatched(validation) = {}
              /\ \A name \in OneOfServices(validation) :
                   OneOfGroupsUnsatisfied(validation, name) = {})
               => result = ValidationPassed
          /\ result.kind = "response" => result.code = 400 /\ issues # <<>>

\* the requested names for which services.find of the validator finds no registered service
Unregistered(request) ==
  {request.serviceTasks[i] : i \in
     {j \in DOMAIN request.serviceTasks :
        FindRegisteredService(request.registered, request.serviceTasks[j]) = 0}}

\* C24: a request naming a service that passed the availability check but is not in the
\* registry is answered with a response of code 500, not with the 400 of a validation
\* failure, and no task is built for it.
C24_UnregisteredServiceIs500 ==
  (/\ validation.outcome.kind # "none"
   /\ validation.addressType # "false"
   /\ InvalidServices(AvailableServiceNames, validation.serviceTasks) = <<>>
   /\ Unregistered(validation) # {})
    => /\ SendResponse(validation.outcome).sent
       /\ SendResponse(validation.outcome).statusCode = 500
       /\ validation.tasksToQueue = <<>>

\* C25: on every path where the validator returns an error, no task has been built, no
\* resolver constructed (so no listener subscribed and no timer armed) and nothing
\* submitted to the queue for the request.
C25_NoTaskBeforeValidation ==
  validation.requiredDataValidation.kind = "response"
    => /\ validation.outcome = [kind |-> "returned",
                                response |-> validation.requiredDataValidation]
       /\ validation.tasksToQueue = <<>>
       /\ phase[1] = "idle"
       /\ resolver[1] = NoResolver
       /\ ~Subscribed(listeners, 1)
       /\ listeners = [completed |-> <<>>, failed |-> <<>>, removed |-> <<>>]
       /\ submitted[1] = <<>>
       /\ queue = {}

\* the validator has returned an error for a request naming two registered services
C25_Witness ==
  /\ validation.requiredDataValidation.kind = "response"
  /\ validation.requiredDataValidation.code = 400
  /\ Len(validation.serviceTasks) = 2
  /\ Unregistered(validation) = {}
  /\ validation.outcome.kind = "returned"

\* C26: every TaskResult that reaches a batch result, whether it came with a completed
\* event or was made by the resolver for a failed or removed event, has a status among
\* done, fail and reject.
C26_BatchResultStatusInDomain ==
  \A r \in Requests :
    resolver[r].promise.kind = "result"
      => \A name \in DOMAIN resolver[r].promise.services :
           resolver[r].promise.services[name].status \in TaskResultStatuses

\* the issues a TaskResult carries, none when its result data has no issues member
IssuesCarried(taskResult) ==
  IF "issues" \in DOMAIN taskResult.resultData THEN taskResult.resultData.issues ELSE <<>>

\* C27: a TaskResult a service resolves do() with carries no issues when its status is
\* done, and at least one issue when its status is reject or fail.
C27_IssuesMatchStatus ==
  doCall.promise.kind = "resolved"
    => LET taskResult == doCall.promise.value
       IN /\ taskResult.status = "done" => IssuesCarried(taskResult) = <<>>
          /\ taskResult.status \in {"reject", "fail"} => IssuesCarried(taskResult) # <<>>

\* C28: for a validated request naming k services the tasks built are exactly k, the i-th
\* for the i-th requested service, all with the request's requestId and with pairwise
\* distinct ids, and the batch the resolver is constructed with, like the jobs submitted
\* to the queue, consists of exactly those tasks.
C28_OneTaskPerRequestedService ==
  validation.outcome.kind = "dispatched"
    => LET tasks == validation.tasksToQueue
           names == validation.serviceTasks
       IN /\ Len(tasks) = Len(names)
          /\ \A i \in DOMAIN tasks :
               /\ tasks[i].serviceName = names[i]
               /\ tasks[i].requestId = resolver[1].batch.requestId
          /\ \A i, j \in DOMAIN tasks : i # j => tasks[i].id # tasks[j].id
          /\ resolver[1].batch.tasks = tasks
          /\ resolver[1].tasksLeft = Len(names)
          /\ queue = {tasks[i] : i \in DOMAIN tasks}
          /\ Cardinality(queue) = Len(names)
          /\ [i \in DOMAIN submitted[1] |-> submitted[1][i].id]
               = [i \in DOMAIN tasks |-> tasks[i].id]

\* a validated request naming ip-validation and rdap has been dispatched as two tasks
C28_Witness ==
  /\ validation.outcome.kind = "dispatched"
  /\ validation.serviceTasks = <<"ip-validation", "rdap">>
  /\ Len(resolver[1].batch.tasks) = 2
  /\ Cardinality(queue) = 2
  /\ phase[1] = "awaiting"

\* the services a response lists under a category, none when the category is absent
ListedUnder(cleanResults, category) ==
  IF category \notin DOMAIN cleanResults THEN {}
  ELSE IF category = "services" THEN DOMAIN cleanResults.services
  ELSE DOMAIN cleanResults[category].services

\* C29: for every TaskBatchResult the resolver's promise is settled with, #waitForTasks
\* returns a response of code 200 that lists each service of the result under exactly one
\* category, the one of its status: done under services, fail under failed, reject under
\* rejected.
C29_ResponseCategorisesEveryService ==
  \A r \in Requests :
    resolver[r].promise.kind = "result"
      => LET out == WaitForTasksResponse(resolver[r].promise)
             services == resolver[r].promise.services
         IN /\ out.kind = "returned"
            /\ out.response.code = 200
            /\ \A name \in DOMAIN services :
                 /\ name \in ListedUnder(out.response.message, "services")
                      <=> services[name].status = "done"
                 /\ name \in ListedUnder(out.response.message, "failed")
                      <=> services[name].status = "fail"
                 /\ name \in ListedUnder(out.response.message, "rejected")
                      <=> services[name].status = "reject"

\* C30: whenever a resolver (of a requestId of its own) makes the done transition, the
\* step in which its once-listener for the lifecycle 'done' event runs, every task id of
\* its batch has a recorded outcome, so each task's serviceName can be joined to one.
C30_DoneOnlyWithAllOutcomes ==
  [][\A r \in Requests :
       (/\ LIFECYCLE_EVENTS.DONE \in resolver[r].lifecycle
        /\ LIFECYCLE_EVENTS.DONE \notin resolver'[r].lifecycle
        /\ resolver'[r].cleanups = resolver[r].cleanups
        /\ OwnRequestId(r))
         => TaskIds(resolver'[r].batch) \subseteq DOMAIN resolver'[r].jobResults]_vars

\* C31: any two requests that reached the dispatch have distinct requestIds and disjoint
\* sets of task ids, requests handled at one clock reading included, so no request's
\* outcomes are recorded from another request's jobs.
C31_DistinctRequestIds ==
  \A r, q \in Requests :
    (r # q /\ phase[r] = "awaiting" /\ phase[q] = "awaiting")
      => /\ resolver[r].batch.requestId # resolver[q].batch.requestId
         /\ TaskIds(resolver[r].batch) \cap TaskIds(resolver[q].batch) = {}

\* C32: the validator returns the requirement-conflict error only if the requested
\* services require some field in two or more distinct shapes; two requested services
\* that each declare a oneOf requirement are not a conflict.
C32_ConflictOnlyForDistinctShapes ==
  (/\ validation.requiredDataValidation.kind = "response"
   /\ validation.requiredDataValidation = RouteHandlerResponse(400, <<ConflictMessage>>))
    => ConflictingServices(validation.registered, validation.serviceTasks) # {}

\* C33: a resolver constructed for a batch of zero tasks (of a requestId of its own)
\* settles its promise on the done path, with a TaskBatchResult of no services, and never
\* with the 504 timeout error.
C33_EmptyBatchResolvesDone ==
  \A r \in Requests :
    (phase[r] = "awaiting" /\ N(r) = 0 /\ OwnRequestId(r))
      => /\ resolver[r].promise # TimeoutError
         /\ resolver[r].promise.kind = "result" => DOMAIN resolver[r].promise.services = {}
         /\ resolver[r].timeout # "fired"

\* C34: results() delivers the outcome whenever it is called: once it has been called for
\* a batch of one or more tasks, if an event has been recorded for every task or the
\* timeout has fired, the returned promise is settled, also when that happened before
\* the call.
C34_ResultsDeliversWheneverCalled ==
  (/\ phase[1] = "awaiting"
   /\ N(1) >= 1
   /\ \/ TaskIds(resolver[1].batch) \subseteq Recorded(1)
      \/ resolver[1].timeout = "fired")
    => resolver[1].promise.kind \in {"result", "error"}

\* C35: in the TaskBatchResult a resolver (of a requestId of its own) resolves with, each
\* task of the batch has an entry of its own, also when the services list named one
\* service more than once: the entries are as many as the tasks and every task id is the
\* id of one of them.
C35_EveryTaskHasItsOwnEntry ==
  \A r \in Requests :
    (resolver[r].promise.kind = "result" /\ OwnRequestId(r))
      => LET services == resolver[r].promise.services
         IN /\ Cardinality(DOMAIN services) = N(r)
            /\ \A id \in TaskIds(resolver[r].batch) :
                 \E name \in DOMAIN services : services[name].id = id

\* the task doTasks builds for the i-th requested service, with its data: the request data
TaskWithData(request, i) ==
  [id |-> request.tasksToQueue[i].id,
   requestId |-> request.tasksToQueue[i].requestId,
   serviceName |-> request.tasksToQueue[i].serviceName,
   data |-> request.requestData]

\* C36: a task built from a payload that passed the validator for a service is not found
\* to miss required data by that service's validateTask (taken for the service whose
\* required data the metadata holds, the one registered last), whatever the schema, a
\* oneOf requirement included.
C36_ValidatorAndServiceAgree ==
  validation.outcome.kind = "dispatched"
    => \A i \in DOMAIN validation.tasksToQueue :
         LET task == TaskWithData(validation, i)
         IN task.serviceName = GetMetadataName(metadata)
              => RequiredDataIssues(DOMAIN GetMetadataRequiredData(metadata),
                                    GetMetadataRequiredData(metadata),
                                    task.data, task.serviceName) = <<>>

\* C37: the TaskResult a service resolves do() with carries the id and the requestId of
\* the task it was given.
C37_ResultCarriesTaskIdentity ==
  (doCall.class # "none" /\ doCall.promise.kind = "resolved")
    => /\ doCall.promise.value.id = doCall.task.id
       /\ doCall.promise.value.requestId = doCall.task.requestId

\* C38: each task is in the queue as a job whose id is the task's id, so the job id a
\* failed or removed event carries is the id of exactly one task of the batch that owns
\* it and of no task of another batch.
C38_JobIdIsOneTaskOfOneBatch ==
  \A r \in Requests :
    phase[r] = "awaiting"
      => /\ \A i \in DOMAIN submitted[r] : \E job \in queue : job.id = submitted[r][i].id
         /\ \A job \in queue :
              OwnsTask(resolver[r].batch, [event |-> "failed", jobId |-> job.id])
                => /\ Cardinality({i \in DOMAIN resolver[r].batch.tasks :
                                     resolver[r].batch.tasks[i].id = job.id}) = 1
                   /\ \A q \in Requests \ {r} :
                        phase[q] = "awaiting"
                          => ~OwnsTask(resolver[q].batch,
                                       [event |-> "removed", jobId |-> job.id])

====
